---- MODULE Spec2Model ----
(***************************************************************************)
(* Model of the global cell selection store (GlobalCellSelection), the     *)
(* side-by-side merge and table-name resolution of SheetCreationUtils, the *)
(* new-sheet naming dialog and the two-step create-table / bulk-insert     *)
(* materialization against the host document.                              *)
(*                                                                         *)
(* JavaScript strings are sequences of one-character strings, so that      *)
(* concatenation, sanitisation and trimming are computed on characters.    *)
(* JavaScript values of unknown type are records with a "kind" field.      *)
(***************************************************************************)
EXTENDS Integers, Sequences, FiniteSets, TLC

VARIABLES
    nameArgs,     \* arguments of one call of _generateUniqueTableName
    nameResult,   \* what that call returned or threw ("none" before the call)
    mergeArgs,    \* argument of one call of convertGlobalSelectionData
    mergeResult,  \* what that call returned or threw ("none" before the call)
    storeCall,    \* the last call on the store: its name, arguments and effect
    selections,   \* GlobalCellSelection.selections: the ordered store
    tables,       \* table ids of gristDoc.docModel.tables.rowModels
    rawViews,     \* the tables whose rawViewSectionRef is set
    pc,           \* where each materialization stands
    capturedData, \* formattedData: what createNewSheet formatted before the dialog
    sheetName,    \* the text of the dialog's input
    options,      \* the ICreateSheetOptions of each running createNewSheet
    newTableId,   \* the name each run resolved locally
    hostTableId,  \* the table id the host's AddTable returned to each run
    sent,         \* the actions each run has passed to sendAction, in order
    opened,       \* the table whose page each run asked openDocPage to open
    error,        \* the error each run raised to its caller, if any
    runs          \* materializations started so far

pureVars == <<nameArgs, nameResult, mergeArgs, mergeResult, storeCall>>
docVars == <<selections, tables, rawViews, pc, capturedData, sheetName, options,
             newTableId, hostTableId, sent, opened, error, runs>>
vars == <<pureVars, docVars>>

-----------------------------------------------------------------------------
(* Bounds of the model.                                                    *)

\* Largest numeric suffix of a table that may already exist in a document.
MaxSuffix == 10
\* Largest number of formatted selections handed to one merge.
MaxSelections == 2
\* Largest row count of one selection.
MaxRows == 2
\* Largest number of entries the store holds at once.
MaxStore == 1
\* Largest number of materializations started in one behaviour.
MaxRuns == 2
\* Largest number of entries of the store when it is exercised on its own.
MaxEntries == 3

-----------------------------------------------------------------------------
(* JavaScript values.                                                      *)

Range(s) == {s[i] : i \in 1..Len(s)}

Null == [kind |-> "null"]
Undefined == [kind |-> "undefined"]
JsString(chars) == [kind |-> "string", chars |-> chars]
JsNumber(n) == [kind |-> "number", n |-> n]
JsArray(items) == [kind |-> "array", items |-> items]

EmptyString == JsString(<<>>)

\* JavaScript truthiness: null, undefined, "" and 0 are falsy.
Truthy(v) ==
    CASE v.kind = "null" -> FALSE
      [] v.kind = "undefined" -> FALSE
      [] v.kind = "string" -> v.chars # <<>>
      [] v.kind = "number" -> v.n # 0
      [] OTHER -> TRUE

\* a || b
OrElse(a, b) == IF Truthy(a) THEN a ELSE b

\* obj[key] of a plain object: undefined when the key is absent.
Get(obj, key) == IF key \in DOMAIN obj THEN obj[key] ELSE Undefined

DigitChar(d) ==
    CASE d = 0 -> "0" [] d = 1 -> "1" [] d = 2 -> "2" [] d = 3 -> "3"
      [] d = 4 -> "4" [] d = 5 -> "5" [] d = 6 -> "6" [] d = 7 -> "7"
      [] d = 8 -> "8" [] d = 9 -> "9"

\* `${n}` of a non-negative integer: its decimal digits.
RECURSIVE NumberToString(_)
NumberToString(n) ==
    IF n < 10 THEN <<DigitChar(n)>>
    ELSE NumberToString(n \div 10) \o <<DigitChar(n % 10)>>

\* What a call returned, or that it threw.
Returned(v) == [ok |-> TRUE, value |-> v]
Thrown(e) == [ok |-> FALSE, error |-> e]
NotCalled == [ok |-> FALSE, error |-> "not called"]

-----------------------------------------------------------------------------
(* The materializations: "gcs" is GlobalCellSelection.createNewSheet (the  *)
(* naming dialog, then SheetCreationUtils.createNewSheet on the merged     *)
(* selections); "bv" is a call of SheetCreationUtils.createNewSheet on a   *)
(* converted BaseView selection.                                           *)

Procs == {"gcs", "bv"}

NoName == <<>>
NoOptions == [baseTableName |-> NoName, columns |-> <<>>, bulkData |-> <<>>,
              navigateToSheet |-> FALSE]
NoError == "none"
NoStoreCall == [op |-> "none"]

\* The store is empty, no materialization runs, and the document holds the
\* given tables, each with its raw view section.
DocInit(existing) ==
    /\ selections = <<>>
    /\ tables = existing
    /\ rawViews = existing
    /\ pc = [p \in Procs |-> "idle"]
    /\ capturedData = <<>>
    /\ sheetName = NoName
    /\ options = [p \in Procs |-> NoOptions]
    /\ newTableId = [p \in Procs |-> NoName]
    /\ hostTableId = [p \in Procs |-> NoName]
    /\ sent = [p \in Procs |-> <<>>]
    /\ opened = [p \in Procs |-> NoName]
    /\ error = [p \in Procs |-> NoError]
    /\ runs = 0

-----------------------------------------------------------------------------
(* SheetCreationUtils._generateUniqueTableName                             *)

DefaultMaxRetries == 10

NameGenerationExhausted == "Could not generate unique table name"

\* The while loop of _generateUniqueTableName; tableIds is the set of table ids
\* of gristDoc.docModel.tables.rowModels.
RECURSIVE GenerateLoop(_, _, _, _, _)
GenerateLoop(tableIds, baseTableName, maxRetries, counter, tableName) ==
    IF counter <= maxRetries
    THEN IF tableName \notin tableIds
         THEN Returned(tableName)
         ELSE GenerateLoop(tableIds, baseTableName, maxRetries, counter + 1,
                           baseTableName \o <<"_">> \o NumberToString(counter))
    ELSE Thrown(NameGenerationExhausted)

\* A resolver that gives up one candidate early (counter < maxRetries).
GenerateUniqueTableNameShort(tableIds, baseTableName, maxRetries) ==
    GenerateLoop(tableIds, baseTableName, maxRetries - 1, 1, baseTableName)

\* A resolver that falls back to the last candidate instead of failing.
GenerateUniqueTableNameFallback(tableIds, baseTableName, maxRetries) ==
    LET r == GenerateLoop(tableIds, baseTableName, maxRetries, 1, baseTableName)
    IN  IF r.ok THEN r
        ELSE Returned(baseTableName \o <<"_">> \o NumberToString(maxRetries - 1))

GenerateUniqueTableName(tableIds, baseTableName, maxRetries) ==
    GenerateLoop(tableIds, baseTableName, maxRetries, 1, baseTableName)

-----------------------------------------------------------------------------
(* The name resolver on its own: a document and a base name are drawn, and *)
(* the resolver is called once with the default retry budget.              *)

Orders == <<"O", "r", "d", "e", "r", "s">>
GlobalSelections ==
    <<"G", "l", "o", "b", "a", "l", "S", "e", "l", "e", "c", "t", "i", "o", "n", "s">>

BaseNames == {Orders, GlobalSelections}

\* The k-th name the resolver is documented to try: the base, then base_1, ...
Candidate(baseName, k) ==
    IF k = 0 THEN baseName ELSE baseName \o <<"_">> \o NumberToString(k)

ExistingNames(baseName) == {Candidate(baseName, k) : k \in 0..MaxSuffix}

InitName ==
    /\ \E b \in BaseNames :
         \E ex \in SUBSET ExistingNames(b) :
           nameArgs = [tables |-> ex, baseTableName |-> b]
    /\ nameResult = NotCalled
    /\ mergeArgs = <<>>
    /\ mergeResult = NotCalled
    /\ storeCall = NoStoreCall
    /\ DocInit({})

ResolveName ==
    /\ nameResult = NotCalled
    /\ nameResult' = GenerateUniqueTableName(nameArgs.tables, nameArgs.baseTableName,
                                             DefaultMaxRetries)
    /\ UNCHANGED <<nameArgs, mergeArgs, mergeResult, storeCall, docVars>>

NextName == ResolveName

SpecName == InitName /\ [][NextName]_vars

\* C4: the resolver returns the first of the candidates base, base_1, ...,
\* base_(maxRetries-1) that names no existing table, and throws exactly when
\* all maxRetries candidates exist.
NameResolverFirstFree ==
    nameResult # NotCalled =>
        LET b == nameArgs.baseTableName
            ex == nameArgs.tables
            free == {k \in 0..(DefaultMaxRetries - 1) : Candidate(b, k) \notin ex}
        IN  /\ nameResult.ok <=> free # {}
            /\ nameResult.ok =>
                   /\ nameResult.value \notin ex
                   /\ \E k \in free :
                        /\ nameResult.value = Candidate(b, k)
                        /\ \A j \in free : k <= j
            /\ ~nameResult.ok => nameResult.error = NameGenerationExhausted

\* The documented examples: Orders, Orders_1..Orders_9 existing: failure has
\* been reached; only Orders existing: Orders_1 has been returned.
NameResolverWitness ==
    /\ nameArgs.baseTableName = Orders
    /\ nameArgs.tables = {Candidate(Orders, k) : k \in 0..9}
    /\ nameResult = Thrown(NameGenerationExhausted)

-----------------------------------------------------------------------------
(* SheetCreationUtils.convertGlobalSelectionData                           *)

\* The characters the sanitising regular expression keeps: [a-zA-Z0-9_].
WordChars ==
    {"a", "b", "c", "d", "e", "f", "g", "h", "i", "j", "k", "l", "m",
     "n", "o", "p", "q", "r", "s", "t", "u", "v", "w", "x", "y", "z",
     "A", "B", "C", "D", "E", "F", "G", "H", "I", "J", "K", "L", "M",
     "N", "O", "P", "Q", "R", "S", "T", "U", "V", "W", "X", "Y", "Z",
     "0", "1", "2", "3", "4", "5", "6", "7", "8", "9", "_"}

\* tableName.replace(/[^a-zA-Z0-9_]/g, '_')
Sanitize(tableName) ==
    [i \in 1..Len(tableName) |-> IF tableName[i] \in WordChars THEN tableName[i] ELSE "_"]

NoFormattedData == "No formatted data provided for sheet creation"
NoValidColumns == "No valid columns found in formatted data"

\* Math.max(...formattedData.map(entry => entry.rowCount || 0))
RECURSIVE MaxRowCount(_, _)
MaxRowCount(formattedData, i) ==
    IF i > Len(formattedData) THEN 0
    ELSE LET rest == MaxRowCount(formattedData, i + 1)
             n == formattedData[i].rowCount
         IN  IF n > rest THEN n ELSE rest

\* A plain object is the sequence of its [key, value] pairs in insertion
\* order; obj[key] = value replaces the value of a present key in place and
\* appends an absent one.
HasKey(obj, key) == \E i \in 1..Len(obj) : obj[i].key = key
SetKey(obj, key, value) ==
    IF HasKey(obj, key)
    THEN [i \in 1..Len(obj) |-> IF obj[i].key = key THEN [key |-> key, value |-> value]
                                ELSE obj[i]]
    ELSE Append(obj, [key |-> key, value |-> value])
ObjectKeys(obj) == [i \in 1..Len(obj) |-> obj[i].key]
ObjectValues(obj) == [i \in 1..Len(obj) |-> obj[i].value]
ValueOf(obj, key) == obj[CHOOSE i \in 1..Len(obj) : obj[i].key = key].value

\* The while loop that resolves a duplicate column id: the id and the label
\* get the counter appended until the id is unused.
RECURSIVE DedupLoop(_, _, _, _, _, _)
DedupLoop(usedColumnIds, baseColumnId, baseLabel, columnId, columnLabel, counter) ==
    IF columnId \in usedColumnIds
    THEN DedupLoop(usedColumnIds, baseColumnId, baseLabel,
                   baseColumnId \o <<"_">> \o NumberToString(counter),
                   baseLabel \o <<"_">> \o NumberToString(counter),
                   counter + 1)
    ELSE [id |-> columnId, label |-> columnLabel]

\* A resolution that tries the suffix _1 once and takes it without looking.
ResolveColumnIdOnce(usedColumnIds, prefix, header) ==
    LET c == prefix \o header
    IN  IF c \in usedColumnIds
        THEN [id |-> c \o <<"_", "1">>, label |-> c \o <<"_", "1">>]
        ELSE [id |-> c, label |-> c]

ResolveColumnId(usedColumnIds, prefix, header) ==
    DedupLoop(usedColumnIds, prefix \o header, prefix \o header,
              prefix \o header, prefix \o header, 1)

\* A fill that pads with null instead of the empty string.
ColumnValuesNullPadded(entry, header, maxRows) ==
    [r \in 1..maxRows |->
        IF r <= Len(entry.data)
        THEN OrElse(Get(entry.data[r], header), EmptyString)
        ELSE Null]

\* A fill that stops at the selection's own rows instead of padding.
ColumnValuesUnpadded(entry, header, maxRows) ==
    [r \in 1..Len(entry.data) |-> OrElse(Get(entry.data[r], header), EmptyString)]

\* A fill that copies the cell as it is, without the || ''.
ColumnValuesRaw(entry, header, maxRows) ==
    [r \in 1..maxRows |->
        IF r <= Len(entry.data) THEN Get(entry.data[r], header) ELSE EmptyString]

\* The data of one column: maxRows values, row by row, '' past the
\* selection's own rows and for an absent or falsy value.
ColumnValues(entry, header, maxRows) ==
    [r \in 1..maxRows |->
        IF r <= Len(entry.data)
        THEN OrElse(Get(entry.data[r], header), EmptyString)
        ELSE EmptyString]

\* The loop over entry.headers, from the h-th header on.
RECURSIVE ProcessHeaders(_, _, _, _, _)
ProcessHeaders(acc, entry, prefix, maxRows, h) ==
    IF h > Len(entry.headers.items) THEN acc
    ELSE LET header == entry.headers.items[h]
             col == ResolveColumnId(acc.usedColumnIds, prefix, header)
             next == [columns |-> Append(acc.columns,
                                         [id |-> col.id, label |-> col.label,
                                          type |-> "Text"]),
                      bulkData |-> SetKey(acc.bulkData, col.id,
                                          ColumnValues(entry, header, maxRows)),
                      usedColumnIds |-> acc.usedColumnIds \cup {col.id}]
         IN  ProcessHeaders(next, entry, prefix, maxRows, h + 1)

\* The loop over the selections, from the one at selectionIndex (0-based) on.
RECURSIVE ProcessSelections(_, _, _, _)
ProcessSelections(acc, formattedData, maxRows, selectionIndex) ==
    IF selectionIndex >= Len(formattedData) THEN acc
    ELSE LET entry == formattedData[selectionIndex + 1]
         IN  IF entry.headers.kind # "array"
             THEN ProcessSelections(acc, formattedData, maxRows, selectionIndex + 1)
             ELSE LET tableName == IF entry.table # <<>> THEN entry.table
                                   ELSE <<"S">> \o NumberToString(selectionIndex + 1)
                      prefix == Sanitize(tableName) \o <<"_">>
                  IN  ProcessSelections(
                          ProcessHeaders(acc, entry, prefix, maxRows, 1),
                          formattedData, maxRows, selectionIndex + 1)

\* A merge that returns a grid without columns instead of throwing.
convertGlobalSelectionDataUnchecked(formattedData) ==
    LET acc == ProcessSelections(
                   [columns |-> <<>>, bulkData |-> <<>>, usedColumnIds |-> {}],
                   formattedData, MaxRowCount(formattedData, 1), 0)
    IN  Returned([columns |-> acc.columns, bulkData |-> acc.bulkData])

convertGlobalSelectionData(formattedData) ==
    IF Len(formattedData) = 0 THEN Thrown(NoFormattedData)
    ELSE LET maxRows == MaxRowCount(formattedData, 1)
             acc == ProcessSelections(
                        [columns |-> <<>>, bulkData |-> <<>>, usedColumnIds |-> {}],
                        formattedData, maxRows, 0)
         IN  IF Len(acc.columns) = 0 THEN Thrown(NoValidColumns)
             ELSE Returned([columns |-> acc.columns, bulkData |-> acc.bulkData])

-----------------------------------------------------------------------------
(* The merge on its own: a list of formatted selections is drawn and       *)
(* convertGlobalSelectionData is called once on it; the specification      *)
(* SpecMerge is completed below, with the callback that uses the merge.    *)

Sales == <<"S", "a", "l", "e", "s">>
Qty == <<"Q", "t", "y">>
Qty_1 == <<"Q", "t", "y", "_", "1">>

\* Table names: a plain one, a missing one (the S<index> fallback) and one
\* the sanitiser rewrites.
MergeTables == {Sales, <<>>, <<"S", " ", "2">>}

\* Header lists: invalid, empty, one header, a repeated header, and a header
\* that already ends in a numeric suffix.
MergeHeaders ==
    {Null, JsArray(<<>>), JsArray(<<Qty>>), JsArray(<<Qty, Qty>>),
     JsArray(<<Qty, Qty_1>>)}

\* The cell of row r under a header: numbers under Qty (0 in the first row),
\* null in the first row and a string below it under any other header.
CellValue(header, r) ==
    IF header = Qty THEN JsNumber(r - 1)
    ELSE IF r = 1 THEN Null
    ELSE JsString(header \o NumberToString(r))

\* The r-th row object; the second row lacks the key Qty_1 (a field whose
\* extraction failed).
RowObject(headers, r) ==
    LET keys == IF headers.kind = "array" THEN Range(headers.items) ELSE {}
    IN  [h \in (keys \ (IF r = 2 THEN {Qty_1} ELSE {})) |-> CellValue(h, r)]

FormattedSelection(table, headers, n) ==
    [id |-> <<"i", "d">>, sheet |-> <<"V">>, table |-> table,
     rowCount |-> n,
     columnCount |-> IF headers.kind = "array" THEN Len(headers.items) ELSE 0,
     headers |-> headers,
     data |-> [r \in 1..n |-> RowObject(headers, r)]]

\* The two selections of the documented end-to-end example.
ExampleA ==
    [id |-> <<"a">>, sheet |-> <<"V">>, table |-> Sales, rowCount |-> 3,
     columnCount |-> 1, headers |-> JsArray(<<Qty>>),
     data |-> <<[h \in {Qty} |-> JsNumber(1)], [h \in {Qty} |-> JsNumber(2)],
                [h \in {Qty} |-> JsNumber(3)]>>]
ExampleB ==
    [id |-> <<"b">>, sheet |-> <<"V">>, table |-> Sales, rowCount |-> 2,
     columnCount |-> 1, headers |-> JsArray(<<Qty>>),
     data |-> <<[h \in {Qty} |-> JsNumber(9)], [h \in {Qty} |-> JsNumber(8)]>>]

MergePool ==
    {FormattedSelection(t, hs, n) : t \in MergeTables, hs \in MergeHeaders, n \in 0..MaxRows}
        \cup {ExampleA, ExampleB}

SeqsUpTo(S, n) == UNION {[1..k -> S] : k \in 0..n}

InitMerge ==
    /\ mergeArgs \in SeqsUpTo(MergePool, MaxSelections)
    /\ mergeResult = NotCalled
    /\ nameArgs = [tables |-> {}, baseTableName |-> <<>>]
    /\ nameResult = NotCalled
    /\ storeCall = NoStoreCall
    /\ DocInit({})

Convert ==
    /\ mergeResult = NotCalled
    /\ mergeResult' = convertGlobalSelectionData(mergeArgs)
    /\ UNCHANGED <<mergeArgs, nameArgs, nameResult, storeCall, docVars>>

\* Number of headers of a selection (none when its headers are invalid).
HeaderCount(entry) == IF entry.headers.kind = "array" THEN Len(entry.headers.items) ELSE 0

RECURSIVE SumHeaderCounts(_, _)
SumHeaderCounts(formattedData, i) ==
    IF i > Len(formattedData) THEN 0
    ELSE HeaderCount(formattedData[i]) + SumHeaderCounts(formattedData, i + 1)

\* The largest rowCount of a non-empty list of selections, stated without
\* the loop.
LargestRowCount(formattedData) ==
    CHOOSE m \in {formattedData[i].rowCount : i \in 1..Len(formattedData)} :
        \A i \in 1..Len(formattedData) : formattedData[i].rowCount <= m

\* C1: a returned grid has as many columns as the selections have headers in
\* total, and every bulkData column, one per column, has as many values as
\* the largest selection has rows.
GridDimensions ==
    mergeResult.ok =>
        LET grid == mergeResult.value
        IN  /\ Len(mergeArgs) > 0
            /\ Len(grid.columns) = SumHeaderCounts(mergeArgs, 1)
            /\ Len(grid.bulkData) = Len(grid.columns)
            /\ \A i \in 1..Len(grid.bulkData) :
                 Len(grid.bulkData[i].value) = LargestRowCount(mergeArgs)

\* Two selections of different row counts and several headers have been merged.
GridDimensionsWitness ==
    /\ mergeResult.ok
    /\ Len(mergeArgs) = 2
    /\ mergeArgs[1].rowCount = 1 /\ mergeArgs[2].rowCount = 2
    /\ Len(mergeResult.value.columns) = 4

\* The (selection, header) pairs in the order the merge visits them: the
\* selections in list order, the headers of each in header order.
RECURSIVE FlatHeaders(_, _)
FlatHeaders(formattedData, i) ==
    IF i > Len(formattedData) THEN <<>>
    ELSE [h \in 1..HeaderCount(formattedData[i]) |->
             [sel |-> i, header |-> formattedData[i].headers.items[h]]]
         \o FlatHeaders(formattedData, i + 1)

\* The prefix of the i-th selection's column ids: its sanitised table name
\* (S<i> when it has none) and an underscore.
PrefixOf(formattedData, i) ==
    Sanitize(IF formattedData[i].table # <<>> THEN formattedData[i].table
             ELSE <<"S">> \o NumberToString(i)) \o <<"_">>

Suffixed(name, k) == name \o <<"_">> \o NumberToString(k)

\* C2: the column ids of a returned grid are pairwise unique, and each is its
\* candidate prefix+header when no earlier column has that id, and otherwise
\* the candidate with the first integer suffix _1, _2, ... no earlier column
\* has.
ColumnIdsUnique ==
    mergeResult.ok =>
        LET cols == mergeResult.value.columns
            flat == FlatHeaders(mergeArgs, 1)
        IN  /\ Len(cols) = Len(flat)
            /\ \A i, j \in 1..Len(cols) : i # j => cols[i].id # cols[j].id
            /\ ObjectKeys(mergeResult.value.bulkData) = [i \in 1..Len(cols) |-> cols[i].id]
            /\ \A i \in 1..Len(cols) :
                 LET c == PrefixOf(mergeArgs, flat[i].sel) \o flat[i].header
                     earlier == {cols[j].id : j \in 1..(i - 1)}
                 IN  IF c \notin earlier THEN cols[i].id = c
                     ELSE \E k \in 1..Len(cols) :
                            /\ cols[i].id = Suffixed(c, k)
                            /\ Suffixed(c, k) \notin earlier
                            /\ \A j \in 1..(k - 1) : Suffixed(c, j) \in earlier

\* A header that already ends in _1 has collided with a generated id, and a
\* repeated header has been pushed past it to _2.
ColumnIdsUniqueWitness ==
    /\ mergeResult.ok
    /\ \E i, j \in 1..Len(mergeResult.value.columns) :
         /\ mergeResult.value.columns[i].id = Suffixed(Sales \o <<"_">> \o Qty_1, 1)
         /\ mergeResult.value.columns[j].id = Suffixed(Sales \o <<"_">> \o Qty, 2)

\* C3: every column of a returned grid is as long as the largest selection,
\* holds the empty string at every row at or past its own selection's row
\* count, and keeps every truthy value of its selection's rows.
ShortSelectionsPadded ==
    mergeResult.ok =>
        LET grid == mergeResult.value
            flat == FlatHeaders(mergeArgs, 1)
            maxRows == LargestRowCount(mergeArgs)
        IN  /\ Len(grid.bulkData) = Len(flat)
            /\ \A i \in 1..Len(flat) :
                 LET entry == mergeArgs[flat[i].sel]
                     values == grid.bulkData[i].value
                 IN  /\ Len(values) = maxRows
                     /\ \A r \in (entry.rowCount + 1)..maxRows : values[r] = EmptyString
                     /\ \A r \in 1..entry.rowCount :
                          Truthy(Get(entry.data[r], flat[i].header))
                              => values[r] = entry.data[r][flat[i].header]

\* A one-row selection has been merged with a two-row one: its column is
\* padded at the second row and the longer selection's last row is kept.
ShortSelectionsPaddedWitness ==
    /\ mergeResult.ok
    /\ Len(mergeArgs) = 2
    /\ mergeArgs[1].rowCount = 1 /\ mergeArgs[2].rowCount = 2
    /\ HeaderCount(mergeArgs[1]) = 1 /\ HeaderCount(mergeArgs[2]) = 1
    /\ mergeResult.value.bulkData[1].value = <<EmptyString, EmptyString>>
    /\ mergeResult.value.bulkData[2].value = <<EmptyString, JsNumber(1)>>

Sales_Qty == Sales \o <<"_">> \o Qty

\* C17: the value of a merged column at a row its selection has is the cell
\* of that row under the column's header, or the empty string when the row
\* has no such cell or a falsy one; and the selections A (Sales, Qty, rows
\* 1,2,3) and B (Sales, Qty, rows 9,8) merge to the columns Sales_Qty =
\* [1,2,3] and Sales_Qty_1 = [9,8,""].
CellsPositional ==
    mergeResult.ok =>
        LET grid == mergeResult.value
            flat == FlatHeaders(mergeArgs, 1)
        IN  /\ Len(grid.bulkData) = Len(flat)
            /\ \A i \in 1..Len(flat) :
                 LET entry == mergeArgs[flat[i].sel]
                     header == flat[i].header
                     values == grid.bulkData[i].value
                 IN  \A r \in 1..entry.rowCount :
                        /\ r <= Len(values)
                        /\ values[r] =
                             IF header \in DOMAIN entry.data[r]
                                /\ Truthy(entry.data[r][header])
                             THEN entry.data[r][header]
                             ELSE EmptyString
            /\ mergeArgs = <<ExampleA, ExampleB>> =>
                 /\ grid.columns =
                      <<[id |-> Sales_Qty, label |-> Sales_Qty, type |-> "Text"],
                        [id |-> Suffixed(Sales_Qty, 1), label |-> Suffixed(Sales_Qty, 1),
                         type |-> "Text"]>>
                 /\ grid.bulkData =
                      <<[key |-> Sales_Qty,
                         value |-> <<JsNumber(1), JsNumber(2), JsNumber(3)>>],
                        [key |-> Suffixed(Sales_Qty, 1),
                         value |-> <<JsNumber(9), JsNumber(8), EmptyString>>]>>

\* The selections A and B have been merged into a grid of three rows.
CellsPositionalWitness ==
    /\ mergeArgs = <<ExampleA, ExampleB>>
    /\ mergeResult.ok
    /\ Len(mergeResult.value.bulkData) = 2
    /\ Len(mergeResult.value.bulkData[2].value) = 3

-----------------------------------------------------------------------------
(* GlobalCellSelection: the store and its formatting.                      *)

\* The entry addSelection builds: the headers are the fields' labels and
\* cellData maps each row id to the formatted value under each column id
\* (a later field with the same column id overwrites an earlier one).
NewEntry(id, sheet, sectionId, tableId, copySelection) ==
    LET fields == copySelection.fields
        colIds == {fields[i].colId : i \in 1..Len(fields)}
        LastIndex(colId) ==
            CHOOSE i \in 1..Len(fields) :
                /\ fields[i].colId = colId
                /\ \A j \in (i + 1)..Len(fields) : fields[j].colId # colId
    IN  [id |-> id, sheetName |-> sheet, sectionId |-> sectionId, tableId |-> tableId,
         rowIds |-> copySelection.rowIds,
         fields |-> fields,
         cellData |-> [rowId \in Range(copySelection.rowIds) |->
                          [colId \in colIds |->
                              copySelection.columns[LastIndex(colId)][rowId]]],
         headers |-> [i \in 1..Len(fields) |-> fields[i].label]]

\* An addSelection that puts the new entry first.
addSelectionFirst(entries, entry) == <<entry>> \o entries

\* this.selections.set([...currentSelections, entry])
addSelection(entries, entry) == Append(entries, entry)

\* removeSelection that drops only the first entry with the id.
RemoveFirstWithId(entries, id) ==
    IF \E i \in 1..Len(entries) : entries[i].id = id
    THEN LET k == CHOOSE i \in 1..Len(entries) :
                      /\ entries[i].id = id
                      /\ \A j \in 1..(i - 1) : entries[j].id # id
         IN  SubSeq(entries, 1, k - 1) \o SubSeq(entries, k + 1, Len(entries))
    ELSE entries

\* currentSelections.filter(entry => entry.id !== id)
RemoveById(entries, id) ==
    LET Keep(entry) == entry.id # id
    IN  SelectSeq(entries, Keep)

RowIdKey == <<"r", "o", "w", "I", "d">>

\* A formatting of a row that gives up at the first field it cannot read.
FormatRowAborting(entry, rowId) ==
    LET fields == entry.fields
        readable == {i \in 1..Len(fields) : \A j \in 1..i : ~fields[j].broken}
        labels == {fields[i].label : i \in readable}
        LastWith(label) ==
            CHOOSE i \in readable :
                /\ fields[i].label = label
                /\ \A j \in readable : (j > i) => fields[j].label # label
    IN  [key \in labels \cup {RowIdKey} |->
            IF key \in labels
            THEN OrElse(Get(entry.cellData[rowId], fields[LastWith(key)].colId), Null)
            ELSE JsNumber(rowId)]

\* The row object of one row id: {rowId}, then one key per field whose
\* column can be read, holding cellData[rowId]?.[colId] || null.
FormatRow(entry, rowId) ==
    LET fields == entry.fields
        readable == {i \in 1..Len(fields) : ~fields[i].broken}
        labels == {fields[i].label : i \in readable}
        LastWith(label) ==
            CHOOSE i \in readable :
                /\ fields[i].label = label
                /\ \A j \in readable : (j > i) => fields[j].label # label
    IN  [key \in labels \cup {RowIdKey} |->
            IF key \in labels
            THEN OrElse(Get(entry.cellData[rowId], fields[LastWith(key)].colId), Null)
            ELSE JsNumber(rowId)]

\* The entries getFormattedData skips: a falsy tableId or sheetName (rowIds
\* and fields are arrays, which are never falsy).
WellFormed(entry) == entry.tableId # <<>> /\ entry.sheetName # <<>>

FormatEntry(entry) ==
    [id |-> entry.id, sheet |-> entry.sheetName, table |-> entry.tableId,
     rowCount |-> Len(entry.rowIds),
     columnCount |-> Len(entry.fields),
     headers |-> JsArray(entry.headers),
     data |-> [k \in 1..Len(entry.rowIds) |-> FormatRow(entry, entry.rowIds[k])]]

getFormattedData(entries) ==
    LET kept == SelectSeq(entries, WellFormed)
    IN  [i \in 1..Len(kept) |-> FormatEntry(kept[i])]

-----------------------------------------------------------------------------
(* SheetCreationUtils.convertBaseViewSelection                             *)

convertBaseViewSelection(selection) ==
    LET fields == selection.fields
        columns == [i \in 1..Len(fields) |->
                       [label |-> fields[i].label, id |-> fields[i].colId,
                        type |-> fields[i].type]]
        RECURSIVE Keys(_, _)
        Keys(obj, i) ==
            IF i > Len(columns) THEN obj
            ELSE Keys(SetKey(obj, columns[i].id, <<>>), i + 1)
        RECURSIVE Cells(_, _, _)
        Cells(obj, r, i) ==
            IF r > Len(selection.rowIds) THEN obj
            ELSE IF i > Len(fields) THEN Cells(obj, r + 1, 1)
            ELSE Cells(SetKey(obj, columns[i].id,
                              Append(ValueOf(obj, columns[i].id),
                                     fields[i].rawData[selection.rowIds[r]])),
                       r, i + 1)
    IN  [columns |-> columns, bulkData |-> Cells(Keys(<<>>, 1), 1, 1)]

-----------------------------------------------------------------------------
(* showNewSheetNameModal                                                   *)

Whitespace == {" ", "\t", "\n"}

\* A trim that is left out: the text as typed.
Untrimmed(text) == text

\* String.prototype.trim
RECURSIVE Trim(_)
Trim(text) ==
    IF text = <<>> THEN text
    ELSE IF text[1] \in Whitespace THEN Trim(Tail(text))
    ELSE IF text[Len(text)] \in Whitespace THEN Trim(SubSeq(text, 1, Len(text) - 1))
    ELSE text

EmptySheetName == "Sheet name cannot be empty"

\* The name the dialog is pre-filled with: the unique name generated from
\* the default, or the default itself when generation throws.
AutoName(existing, defaultName) ==
    LET r == GenerateUniqueTableName(existing, defaultName, DefaultMaxRetries)
    IN  IF defaultName # <<>> /\ r.ok THEN r.value ELSE defaultName

-----------------------------------------------------------------------------
(* The host document: what sendAction and openDocPage do. A create-table   *)
(* action fails, or creates the table under the id asked for, or, when     *)
(* that id is taken, under another id; a bulk-insert action and a page     *)
(* opening fail or succeed.                                                *)

AddTableAction(tableId, columns) ==
    [type |-> "AddTable", tableId |-> tableId, columns |-> columns]
BulkAddRecordAction(tableId, rowIds, bulkData) ==
    [type |-> "BulkAddRecord", tableId |-> tableId, rowIds |-> rowIds,
     bulkData |-> bulkData]

AddTableFailed == "AddTable failed"
BulkAddRecordFailed == "BulkAddRecord failed"
OpenDocPageFailed == "openDocPage failed"

\* The id the host gives a table whose id is taken: the first free one of
\* id2, id3, ...
RECURSIVE HostRenameFrom(_, _, _)
HostRenameFrom(existing, tableId, n) ==
    IF tableId \o NumberToString(n) \notin existing
    THEN tableId \o NumberToString(n)
    ELSE HostRenameFrom(existing, tableId, n + 1)

HostTableId(existing, tableId) ==
    IF tableId \notin existing THEN tableId ELSE HostRenameFrom(existing, tableId, 2)

-----------------------------------------------------------------------------
(* Inputs of the document model.                                           *)

ViewName == <<"V">>
SourceTable == <<"T">>
FieldA == [label |-> <<"A">>, colId |-> <<"a">>, broken |-> FALSE]
FmtValue(rowId) == JsString(<<"v">> \o NumberToString(rowId))

\* The CopySelections a user adds: one cell, and rows without any field.
CopySelections ==
    {[fields |-> <<FieldA>>, rowIds |-> <<1>>, columns |-> <<[r \in {1} |-> FmtValue(r)]>>],
     [fields |-> <<>>, rowIds |-> <<1>>, columns |-> <<>>]}

\* `${sectionId}-${Date.now()}-${random}`: the time and random parts are
\* drawn, so two entries may get the same id.
IdTokens == {<<"x">>, <<"y">>}
EntryId(sectionId, token) == NumberToString(sectionId) \o <<"-">> \o token
EntryIds == {EntryId(1, t) : t \in IdTokens}
\* The id of the entries added while a document is materialized.
DocEntryIds == {EntryId(1, <<"x">>)}

\* What the user types over the suggested name.
TypedNames == {<<" ">>, <<" ">> \o GlobalSelections \o <<" ">>}

\* The BaseView selections of the other materialization: a column without
\* rows, and a selection without fields.
BaseViewSelections ==
    {[fields |-> <<[label |-> <<"A">>, colId |-> <<"a">>, type |-> "Text",
                    rawData |-> <<>>]>>,
      rowIds |-> <<>>],
     [fields |-> <<>>, rowIds |-> <<1>>]}

\* The documents a behaviour starts from: an empty one, and one in which the
\* default sheet name and all its suffixed candidates are taken.
InitDocs ==
    {{}, {Candidate(GlobalSelections, k) : k \in 0..(DefaultMaxRetries - 1)}}

-----------------------------------------------------------------------------
(* The store's operations.                                                 *)

AddSelection ==
    /\ Len(selections) < MaxStore
    /\ \E cs \in CopySelections, id \in DocEntryIds :
         selections' = addSelection(selections,
                                    NewEntry(id, ViewName, 1, SourceTable, cs))
    /\ UNCHANGED <<pureVars, tables, rawViews, pc, capturedData, sheetName, options,
                   newTableId, hostTableId, sent, opened, error, runs>>

RemoveSelection ==
    /\ \E id \in EntryIds : selections' = RemoveById(selections, id)
    /\ UNCHANGED <<pureVars, tables, rawViews, pc, capturedData, sheetName, options,
                   newTableId, hostTableId, sent, opened, error, runs>>

ClearSelections ==
    /\ selections' = <<>>
    /\ UNCHANGED <<pureVars, tables, rawViews, pc, capturedData, sheetName, options,
                   newTableId, hostTableId, sent, opened, error, runs>>

-----------------------------------------------------------------------------
(* The store on its own: any sequence of addSelection, removeSelection,    *)
(* clearSelections and getFormattedData calls, each recorded in storeCall  *)
(* with the store it was made on. Entries may lack a sheet name or a table *)
(* id, may share an id, and may hold a field whose column cannot be read.  *)

\* A field whose column is gone when the store is formatted.
FieldB == [label |-> <<"B">>, colId |-> <<"b">>, broken |-> TRUE]

\* Two rows under an unreadable and a readable field, the second row with an
\* empty formatted value; and a field without rows.
StoreCopySelections ==
    {[fields |-> <<FieldB, FieldA>>, rowIds |-> <<1, 2>>,
      columns |-> <<[r \in {1, 2} |-> FmtValue(r)],
                    [r \in {1, 2} |-> IF r = 1 THEN FmtValue(r) ELSE EmptyString]>>],
     [fields |-> <<FieldA>>, rowIds |-> <<>>, columns |-> <<<<>>>>]}

\* The (sheetName, tableId) pairs addSelection is called with.
StoreSources == {<<ViewName, SourceTable>>, <<NoName, SourceTable>>, <<ViewName, NoName>>}

storeFrame == <<nameArgs, nameResult, mergeArgs, mergeResult, tables, rawViews, pc,
                capturedData, sheetName, options, newTableId, hostTableId, sent,
                opened, error, runs>>

InitStore ==
    /\ nameArgs = [tables |-> {}, baseTableName |-> <<>>]
    /\ nameResult = NotCalled
    /\ mergeArgs = <<>>
    /\ mergeResult = NotCalled
    /\ storeCall = NoStoreCall
    /\ DocInit({})

StoreAdd ==
    /\ Len(selections) < MaxEntries
    /\ \E id \in EntryIds, source \in StoreSources, cs \in StoreCopySelections :
         /\ selections' = addSelection(selections,
                                       NewEntry(id, source[1], 1, source[2], cs))
         /\ storeCall' = [op |-> "addSelection", id |-> id, before |-> selections]
    /\ UNCHANGED storeFrame

StoreRemove ==
    /\ \E id \in EntryIds :
         /\ selections' = RemoveById(selections, id)
         /\ storeCall' = [op |-> "removeSelection", id |-> id, before |-> selections]
    /\ UNCHANGED storeFrame

StoreClear ==
    /\ selections' = <<>>
    /\ storeCall' = [op |-> "clearSelections", before |-> selections]
    /\ UNCHANGED storeFrame

StoreFormat ==
    /\ storeCall' = [op |-> "getFormattedData", before |-> selections,
                     result |-> getFormattedData(selections)]
    /\ UNCHANGED <<selections, storeFrame>>

NextStore == StoreAdd \/ StoreRemove \/ StoreClear \/ StoreFormat

SpecStore == InitStore /\ [][NextStore]_vars

-----------------------------------------------------------------------------
(* GlobalCellSelection.createNewSheet and the dialog.                      *)

\* createNewSheet with nothing to format: logs and returns, without a dialog.
CreateNewSheetNoSelections ==
    /\ pc["gcs"] = "idle"
    /\ Len(getFormattedData(selections)) = 0
    /\ capturedData' = getFormattedData(selections)
    /\ pc' = [pc EXCEPT !["gcs"] = "done"]
    /\ UNCHANGED <<pureVars, selections, tables, rawViews, sheetName, options,
                   newTableId, hostTableId, sent, opened, error, runs>>

\* createNewSheet formats the store and opens the dialog on the suggested name.
OpenDialog ==
    /\ pc["gcs"] = "idle"
    /\ Len(getFormattedData(selections)) # 0
    /\ capturedData' = getFormattedData(selections)
    /\ sheetName' = AutoName(tables, GlobalSelections)
    /\ pc' = [pc EXCEPT !["gcs"] = "dialog"]
    /\ UNCHANGED <<pureVars, selections, tables, rawViews, options, newTableId,
                   hostTableId, sent, opened, error, runs>>

EditName ==
    /\ pc["gcs"] = "dialog"
    /\ \E text \in TypedNames : sheetName' = text
    /\ UNCHANGED <<pureVars, selections, tables, rawViews, pc, capturedData, options,
                   newTableId, hostTableId, sent, opened, error, runs>>

\* A cancel that also empties the store.
CancelDialogClears ==
    /\ pc["gcs"] = "dialog"
    /\ pc' = [pc EXCEPT !["gcs"] = "cancelled"]
    /\ selections' = <<>>
    /\ UNCHANGED <<pureVars, tables, rawViews, capturedData, sheetName, options,
                   newTableId, hostTableId, sent, opened, error, runs>>

\* The user cancels: the dialog closes and onSubmit is not called.
CancelDialog ==
    /\ pc["gcs"] = "dialog"
    /\ pc' = [pc EXCEPT !["gcs"] = "cancelled"]
    /\ UNCHANGED <<pureVars, selections, tables, rawViews, capturedData, sheetName,
                   options, newTableId, hostTableId, sent, opened, error, runs>>

\* saveFunc on a name that trims to nothing: throws, the dialog stays open.
SaveEmptyName ==
    /\ pc["gcs"] = "dialog"
    /\ Trim(sheetName) = <<>>
    /\ error' = [error EXCEPT !["gcs"] = EmptySheetName]
    /\ UNCHANGED <<pureVars, selections, tables, rawViews, pc, capturedData, sheetName,
                   options, newTableId, hostTableId, sent, opened, runs>>

-----------------------------------------------------------------------------
(* SheetCreationUtils.createNewSheet, step by step: the synchronous part   *)
(* up to the first sendAction, then one step per awaited host answer, each *)
(* with the code that runs on it up to the next await or the return.       *)

\* The run of p throws e to its caller; nothing else changes.
Fails(p, e) ==
    /\ pc' = [pc EXCEPT ![p] = "failed"]
    /\ error' = [error EXCEPT ![p] = e]

\* A createNewSheet that resolves its name against the known tables and the
\* names other runs are creating.
CallCreateNewSheetReserving(p, opts) ==
    LET pending == {newTableId[q] : q \in {q \in Procs : pc[q] = "addTable"}}
        r == GenerateUniqueTableName(tables \cup pending, opts.baseTableName,
                                     DefaultMaxRetries)
    IN  /\ options' = [options EXCEPT ![p] = opts]
        /\ hostTableId' = [hostTableId EXCEPT ![p] = NoName]
        /\ opened' = [opened EXCEPT ![p] = NoName]
        /\ IF r.ok
           THEN /\ newTableId' = [newTableId EXCEPT ![p] = r.value]
                /\ sent' = [sent EXCEPT ![p] = <<AddTableAction(r.value, opts.columns)>>]
                /\ pc' = [pc EXCEPT ![p] = "addTable"]
                /\ error' = [error EXCEPT ![p] = NoError]
           ELSE /\ newTableId' = [newTableId EXCEPT ![p] = NoName]
                /\ sent' = [sent EXCEPT ![p] = <<>>]
                /\ pc' = [pc EXCEPT ![p] = "failed"]
                /\ error' = [error EXCEPT ![p] = r.error]

\* createNewSheet is entered with opts: the table name is resolved against
\* the tables known now and the AddTable action is sent, or the resolver
\* throws and nothing is sent.
CallCreateNewSheet(p, opts) ==
    LET r == GenerateUniqueTableName(tables, opts.baseTableName, DefaultMaxRetries)
    IN  /\ options' = [options EXCEPT ![p] = opts]
        /\ hostTableId' = [hostTableId EXCEPT ![p] = NoName]
        /\ opened' = [opened EXCEPT ![p] = NoName]
        /\ IF r.ok
           THEN /\ newTableId' = [newTableId EXCEPT ![p] = r.value]
                /\ sent' = [sent EXCEPT ![p] = <<AddTableAction(r.value, opts.columns)>>]
                /\ pc' = [pc EXCEPT ![p] = "addTable"]
                /\ error' = [error EXCEPT ![p] = NoError]
           ELSE /\ newTableId' = [newTableId EXCEPT ![p] = NoName]
                /\ sent' = [sent EXCEPT ![p] = <<>>]
                /\ Fails(p, r.error)

\* createNewSheet returns to its caller: the dialog's callback then clears
\* the store; the other caller does nothing more.
Returns(p) ==
    /\ pc' = [pc EXCEPT ![p] = "done"]
    /\ selections' = IF p = "gcs" THEN <<>> ELSE selections

\* A navigation after which the callback has already emptied the store while
\* openDocPage is still awaited.
NavigateOrReturnClearsEarly(p, tableIds, views) ==
    IF options[p].navigateToSheet /\ newTableId[p] \in tableIds /\ newTableId[p] \in views
    THEN /\ opened' = [opened EXCEPT ![p] = newTableId[p]]
         /\ pc' = [pc EXCEPT ![p] = "openPage"]
         /\ selections' = IF p = "gcs" THEN <<>> ELSE selections
    ELSE /\ pc' = [pc EXCEPT ![p] = "done"]
         /\ selections' = IF p = "gcs" THEN <<>> ELSE selections
         /\ UNCHANGED opened

\* Lines 74-79 on the tables and raw views the document has by then:
\* _navigateToSheet awaits openDocPage when the table record and its raw view
\* section are found, and logs otherwise; then createNewSheet returns.
NavigateOrReturn(p, tableIds, views) ==
    IF options[p].navigateToSheet /\ newTableId[p] \in tableIds /\ newTableId[p] \in views
    THEN /\ opened' = [opened EXCEPT ![p] = newTableId[p]]
         /\ pc' = [pc EXCEPT ![p] = "openPage"]
         /\ UNCHANGED selections
    ELSE /\ Returns(p)
         /\ UNCHANGED opened

\* The callback GlobalCellSelection.createNewSheet hands to the dialog, up
\* to its first await: it merges formattedData and calls createNewSheet with
\* the grid, or rethrows what the merge threw.
OnSubmit(formattedData, name) ==
    LET grid == convertGlobalSelectionData(formattedData)
    IN  IF grid.ok
        THEN CallCreateNewSheet("gcs",
                 [baseTableName |-> name, columns |-> grid.value.columns,
                  bulkData |-> grid.value.bulkData, navigateToSheet |-> TRUE])
        ELSE /\ Fails("gcs", grid.error)
             /\ UNCHANGED <<options, newTableId, hostTableId, sent, opened>>

\* The dialog's saveFunc on a non-empty trimmed name: the callback runs on
\* the captured selections.
Submit ==
    /\ pc["gcs"] = "dialog"
    /\ Trim(sheetName) # <<>>
    /\ runs < MaxRuns
    /\ runs' = runs + 1
    /\ OnSubmit(capturedData, Trim(sheetName))
    /\ UNCHANGED <<pureVars, selections, tables, rawViews, capturedData, sheetName>>

\* The merge on its own, continued: the callback runs on the drawn list of
\* formatted selections, on an empty document, up to the BulkAddRecord
\* action (SpecMerge is completed below, with the host's answer).
SubmitMerged ==
    /\ mergeResult # NotCalled
    /\ pc["gcs"] = "idle"
    /\ OnSubmit(mergeArgs, GlobalSelections)
    /\ UNCHANGED <<pureVars, selections, tables, rawViews, capturedData, sheetName,
                   runs>>


\* Another caller materializes a BaseView selection under the default name,
\* without navigation.
StartBaseView ==
    /\ pc["bv"] = "idle"
    /\ runs < MaxRuns
    /\ runs' = runs + 1
    /\ \E selection \in BaseViewSelections :
         LET grid == convertBaseViewSelection(selection)
         IN  CallCreateNewSheet("bv",
                 [baseTableName |-> GlobalSelections, columns |-> grid.columns,
                  bulkData |-> grid.bulkData, navigateToSheet |-> FALSE])
    /\ UNCHANGED <<pureVars, selections, tables, rawViews, capturedData, sheetName>>

\* A failed AddTable that is swallowed: the run goes on to send BulkAddRecord.
AddTableFailsSwallowed ==
    \E p \in Procs :
        /\ pc[p] = "addTable"
        /\ sent' = [sent EXCEPT ![p] =
                       Append(@, BulkAddRecordAction(newTableId[p], <<>>,
                                                     options[p].bulkData))]
        /\ pc' = [pc EXCEPT ![p] = "bulkAdd"]
        /\ UNCHANGED <<pureVars, selections, tables, rawViews, capturedData, sheetName,
                       options, newTableId, hostTableId, opened, error, runs>>

\* The host answers the AddTable action with a failure.
AddTableFails ==
    \E p \in Procs :
        /\ pc[p] = "addTable"
        /\ Fails(p, AddTableFailed)
        /\ UNCHANGED <<pureVars, selections, tables, rawViews, capturedData, sheetName,
                       options, newTableId, hostTableId, sent, opened, runs>>

\* A createNewSheet that takes the number of columns for the number of rows.
AddTableSucceedsCountsColumns ==
    \E p \in Procs :
        /\ pc[p] = "addTable"
        /\ LET created == HostTableId(tables, newTableId[p])
               tableIds == tables \cup {created}
               views == rawViews \cup {created}
               bulkData == options[p].bulkData
           IN  /\ tables' = tableIds
               /\ rawViews' = views
               /\ hostTableId' = [hostTableId EXCEPT ![p] = created]
               /\ IF Len(ObjectKeys(bulkData)) > 0
                  THEN LET firstColumnData == ObjectValues(bulkData)[1]
                           numRows == Len(ObjectKeys(bulkData))
                           rowIds == [i \in 1..numRows |-> Null]
                       IN  /\ sent' = [sent EXCEPT ![p] =
                                          Append(@, BulkAddRecordAction(newTableId[p],
                                                                        rowIds, bulkData))]
                           /\ pc' = [pc EXCEPT ![p] = "bulkAdd"]
                           /\ UNCHANGED <<selections, opened>>
                  ELSE /\ NavigateOrReturn(p, tableIds, views)
                       /\ UNCHANGED sent
        /\ UNCHANGED <<pureVars, capturedData, sheetName, options, newTableId, error, runs>>

\* The host creates the table and answers with its id; createNewSheet goes on
\* to line 58: it sends BulkAddRecord when bulkData has a key, with one null
\* row id per value of the first column, and navigates or returns otherwise.
AddTableSucceeds ==
    \E p \in Procs :
        /\ pc[p] = "addTable"
        /\ LET created == HostTableId(tables, newTableId[p])
               tableIds == tables \cup {created}
               views == rawViews \cup {created}
               bulkData == options[p].bulkData
           IN  /\ tables' = tableIds
               /\ rawViews' = views
               /\ hostTableId' = [hostTableId EXCEPT ![p] = created]
               /\ IF Len(ObjectKeys(bulkData)) > 0
                  THEN LET firstColumnData == ObjectValues(bulkData)[1]
                           numRows == Len(firstColumnData)
                           rowIds == [i \in 1..numRows |-> Null]
                       IN  /\ sent' = [sent EXCEPT ![p] =
                                          Append(@, BulkAddRecordAction(newTableId[p],
                                                                        rowIds, bulkData))]
                           /\ pc' = [pc EXCEPT ![p] = "bulkAdd"]
                           /\ UNCHANGED <<selections, opened>>
                  ELSE /\ NavigateOrReturn(p, tableIds, views)
                       /\ UNCHANGED sent
        /\ UNCHANGED <<pureVars, capturedData, sheetName, options, newTableId, error, runs>>

NextMerge == Convert \/ SubmitMerged \/ AddTableSucceeds

SpecMerge == InitMerge /\ [][NextMerge]_vars

\* A failed BulkAddRecord after which the created table is removed again.
BulkAddRecordFailsRollsBack ==
    \E p \in Procs :
        /\ pc[p] = "bulkAdd"
        /\ Fails(p, BulkAddRecordFailed)
        /\ tables' = tables \ {hostTableId[p]}
        /\ rawViews' = rawViews \ {hostTableId[p]}
        /\ UNCHANGED <<pureVars, selections, capturedData, sheetName,
                       options, newTableId, hostTableId, sent, opened, runs>>

\* The host answers the BulkAddRecord action with a failure.
BulkAddRecordFails ==
    \E p \in Procs :
        /\ pc[p] = "bulkAdd"
        /\ Fails(p, BulkAddRecordFailed)
        /\ UNCHANGED <<pureVars, selections, tables, rawViews, capturedData, sheetName,
                       options, newTableId, hostTableId, sent, opened, runs>>

\* The host inserts the rows into the table the action names.
BulkAddRecordSucceeds ==
    \E p \in Procs :
        /\ pc[p] = "bulkAdd"
        /\ newTableId[p] \in tables
        /\ NavigateOrReturn(p, tables, rawViews)
        /\ UNCHANGED <<pureVars, tables, rawViews, capturedData, sheetName, options,
                       newTableId, hostTableId, sent, error, runs>>

\* openDocPage throws: _navigateToSheet and createNewSheet throw with it.
OpenDocPageFails ==
    \E p \in Procs :
        /\ pc[p] = "openPage"
        /\ Fails(p, OpenDocPageFailed)
        /\ UNCHANGED <<pureVars, selections, tables, rawViews, capturedData, sheetName,
                       options, newTableId, hostTableId, sent, opened, runs>>

OpenDocPageSucceeds ==
    \E p \in Procs :
        /\ pc[p] = "openPage"
        /\ Returns(p)
        /\ UNCHANGED <<pureVars, tables, rawViews, capturedData, sheetName, options,
                       newTableId, hostTableId, sent, opened, error, runs>>

\* The finished run is forgotten: the dialog is gone, the promise settled.
Close ==
    \E p \in Procs :
        /\ pc[p] \in {"done", "failed", "cancelled"}
        /\ pc' = [pc EXCEPT ![p] = "idle"]
        /\ options' = [options EXCEPT ![p] = NoOptions]
        /\ newTableId' = [newTableId EXCEPT ![p] = NoName]
        /\ hostTableId' = [hostTableId EXCEPT ![p] = NoName]
        /\ sent' = [sent EXCEPT ![p] = <<>>]
        /\ opened' = [opened EXCEPT ![p] = NoName]
        /\ error' = [error EXCEPT ![p] = NoError]
        /\ capturedData' = IF p = "gcs" THEN <<>> ELSE capturedData
        /\ sheetName' = IF p = "gcs" THEN NoName ELSE sheetName
        /\ UNCHANGED <<pureVars, selections, tables, rawViews, runs>>

-----------------------------------------------------------------------------

Init ==
    /\ nameArgs = [tables |-> {}, baseTableName |-> <<>>]
    /\ nameResult = NotCalled
    /\ mergeArgs = <<>>
    /\ mergeResult = NotCalled
    /\ storeCall = NoStoreCall
    /\ \E existing \in InitDocs : DocInit(existing)

Next ==
    \/ AddSelection
    \/ RemoveSelection
    \/ ClearSelections
    \/ CreateNewSheetNoSelections
    \/ OpenDialog
    \/ EditName
    \/ CancelDialog
    \/ SaveEmptyName
    \/ Submit
    \/ StartBaseView
    \/ AddTableFails
    \/ AddTableSucceeds
    \/ BulkAddRecordFails
    \/ BulkAddRecordSucceeds
    \/ OpenDocPageFails
    \/ OpenDocPageSucceeds
    \/ Close

Spec == Init /\ [][Next]_vars

-----------------------------------------------------------------------------
(* Properties of the materialization.                                      *)

SentTypes(p) == [i \in 1..Len(sent[p]) |-> sent[p][i].type]

\* Every candidate the resolver may try for the base name is taken.
AllCandidatesExist(existing, baseName) ==
    \A k \in 0..(DefaultMaxRetries - 1) : Candidate(baseName, k) \in existing

\* C5: a createNewSheet call whose base name and all its suffixed candidates
\* are taken throws the resolver's error and leaves the document's tables
\* alone, and a run that has thrown that error has sent no action and has not
\* navigated.
NoMutationOnExhaustion ==
    [][\A p \in Procs :
        /\ ( /\ pc[p] \in {"idle", "dialog"}
             /\ pc'[p] \notin {"idle", "dialog"}
             /\ options'[p] # NoOptions
             /\ AllCandidatesExist(tables, options'[p].baseTableName) )
           => ( /\ pc'[p] = "failed"
                /\ error'[p] = NameGenerationExhausted
                /\ tables' = tables )
        /\ error'[p] = NameGenerationExhausted
           => ( /\ pc'[p] = "failed"
                /\ sent'[p] = <<>>
                /\ hostTableId'[p] = NoName
                /\ opened'[p] = NoName )]_vars

\* The dialog's run has failed on an exhausted resolver, with nothing sent.
NoMutationOnExhaustionWitness ==
    /\ pc["gcs"] = "failed"
    /\ error["gcs"] = NameGenerationExhausted
    /\ options["gcs"].baseTableName = GlobalSelections
    /\ sent["gcs"] = <<>>
    /\ AllCandidatesExist(tables, GlobalSelections)

\* C6: a run whose AddTable action failed has thrown that error, has sent
\* nothing but the AddTable action, has created no table and has not
\* navigated; and in every run a BulkAddRecord action is the second action,
\* sent after the host answered the AddTable action with a table id.
CreateFailureAborts ==
    \A p \in Procs :
        /\ error[p] = AddTableFailed
           => ( /\ pc[p] = "failed"
                /\ SentTypes(p) = <<"AddTable">>
                /\ hostTableId[p] = NoName
                /\ opened[p] = NoName )
        /\ \A i \in 1..Len(sent[p]) :
             sent[p][i].type = "BulkAddRecord"
                => ( /\ i = 2
                     /\ sent[p][1].type = "AddTable"
                     /\ hostTableId[p] # NoName
                     /\ hostTableId[p] \in tables )

\* The AddTable action of a run with data to insert has failed.
CreateFailureAbortsWitness ==
    /\ pc["gcs"] = "failed"
    /\ error["gcs"] = AddTableFailed
    /\ Len(options["gcs"].bulkData) > 0
    /\ Len(options["gcs"].bulkData[1].value) > 0

\* C7: a run whose BulkAddRecord action failed has thrown that error, its
\* table is still in the document, it has not navigated, and it has sent
\* nothing but the AddTable and the BulkAddRecord action (no removal).
InsertFailureLeavesOrphan ==
    \A p \in Procs :
        error[p] = BulkAddRecordFailed
            => ( /\ pc[p] = "failed"
                 /\ hostTableId[p] # NoName
                 /\ hostTableId[p] \in tables
                 /\ SentTypes(p) = <<"AddTable", "BulkAddRecord">>
                 /\ opened[p] = NoName )

\* The dialog's run has failed at the insert and its table exists.
InsertFailureLeavesOrphanWitness ==
    /\ pc["gcs"] = "failed"
    /\ error["gcs"] = BulkAddRecordFailed
    /\ hostTableId["gcs"] = GlobalSelections
    /\ GlobalSelections \in tables

\* The row count of a grid: the length of its columns' data (0 without columns).
GridRowCount(opts) ==
    IF Len(opts.bulkData) = 0 THEN 0 ELSE Len(opts.bulkData[1].value)

\* C8: once the host has created the table of a run, the run has sent a
\* BulkAddRecord action if and only if its grid has more than zero rows.
InsertIffRows ==
    \A p \in Procs :
        (hostTableId[p] # NoName)
            => ( (\E i \in 1..Len(sent[p]) : sent[p][i].type = "BulkAddRecord")
                    <=> GridRowCount(options[p]) > 0 )

\* C9: the BulkAddRecord action, the page opened and the value returned all
\* name the table id the host returned for the AddTable action.
HostIdAuthoritative ==
    \A p \in Procs :
        (hostTableId[p] # NoName)
            => ( /\ \A i \in 1..Len(sent[p]) :
                      sent[p][i].type = "BulkAddRecord"
                          => sent[p][i].tableId = hostTableId[p]
                 /\ opened[p] # NoName => opened[p] = hostTableId[p]
                 /\ pc[p] = "done" => newTableId[p] = hostTableId[p] )

\* C10: no step of a materialization changes the store, except that the
\* dialog's callback empties it in the step in which the createNewSheet it
\* called returns without an error; in particular a step that fails leaves
\* the store as it was.
StoreUntouchedUnlessCreated ==
    [][\A p \in Procs :
        (pc'[p] # pc[p])
            => IF p = "gcs" /\ pc'[p] = "done" /\ pc[p] # "idle"
               THEN /\ selections' = <<>>
                    /\ error'[p] = NoError
                    /\ hostTableId'[p] # NoName
                    /\ pc[p] \in {"addTable", "bulkAdd", "openPage"}
               ELSE selections' = selections]_vars

\* The dialog's run has failed at the insert while the store holds an entry.
StoreUntouchedWitness ==
    /\ pc["gcs"] = "failed"
    /\ error["gcs"] = BulkAddRecordFailed
    /\ Len(selections) > 0
    /\ Len(capturedData) > 0
    /\ selections[1].id = capturedData[1].id

\* C11: cancelling the naming dialog changes neither the store nor the
\* document, and the cancelled attempt has sent no action and created no table.
CancelChangesNothing ==
    [][ /\ (pc["gcs"] = "dialog" /\ pc'["gcs"] = "cancelled")
           => ( /\ selections' = selections
                /\ tables' = tables
                /\ rawViews' = rawViews
                /\ sent' = sent
                /\ opened' = opened )
        /\ (pc'["gcs"] = "cancelled")
           => ( /\ sent'["gcs"] = <<>>
                /\ hostTableId'["gcs"] = NoName
                /\ opened'["gcs"] = NoName )]_vars

\* The dialog was cancelled over a store that still holds what it showed.
CancelChangesNothingWitness ==
    /\ pc["gcs"] = "cancelled"
    /\ Len(selections) > 0
    /\ getFormattedData(selections) = capturedData
    /\ sent["gcs"] = <<>>

\* The errors convertGlobalSelectionData throws for want of data.
NoDataErrors == {NoFormattedData, NoValidColumns}

\* C12: an empty store formats to nothing, and a createNewSheet called on a
\* store that formats to nothing fails with the no-data error, having sent
\* no action.
EmptyStoreMaterializeFails ==
    /\ selections = <<>> => getFormattedData(selections) = <<>>
    /\ (pc["gcs"] \notin {"idle", "dialog"} /\ capturedData = <<>>)
          => ( /\ pc["gcs"] = "failed"
               /\ error["gcs"] \in NoDataErrors
               /\ sent["gcs"] = <<>> )

\* C15: a run asks for a page only when navigation was requested and its
\* AddTable action and, if it sent one, its BulkAddRecord action succeeded;
\* and a run that asked for a page has not failed: no error of openDocPage
\* is raised to the caller, and its table is still in the document.
NavigationBestEffort ==
    \A p \in Procs :
        /\ opened[p] # NoName
              => ( /\ options[p].navigateToSheet
                   /\ hostTableId[p] # NoName
                   /\ hostTableId[p] \in tables
                   /\ pc[p] \in {"openPage", "done"} )
        /\ error[p] # OpenDocPageFailed

\* C16: a run that enters createNewSheet while another run awaits the answer
\* to its AddTable action, with the same base name and before the table of
\* that other run exists, resolves the same table id and sends an AddTable
\* action with that same id: nothing keeps the name for the first run.
SameNameResolvedTwice ==
    [][\A p, q \in Procs :
        ( /\ p # q
          /\ pc[p] = "addTable"
          /\ newTableId[p] \notin tables
          /\ pc[q] \in {"idle", "dialog"}
          /\ pc'[q] \notin {"idle", "dialog", "cancelled"}
          /\ options'[q].baseTableName = options[p].baseTableName )
            => ( /\ pc'[q] = "addTable"
                 /\ pc'[p] = "addTable"
                 /\ newTableId'[q] = newTableId[p]
                 /\ sent'[q] = <<AddTableAction(newTableId[p], options'[q].columns)>>
                 /\ sent'[p] = <<AddTableAction(newTableId[p], options[p].columns)>> )]_vars

\* Both runs have sent an AddTable action for GlobalSelections to a document
\* that has no such table, and neither has been answered.
SameNameResolvedTwiceWitness ==
    /\ pc["gcs"] = "addTable" /\ pc["bv"] = "addTable"
    /\ sent["gcs"][1].tableId = GlobalSelections
    /\ sent["bv"][1].tableId = GlobalSelections
    /\ GlobalSelections \notin tables

\* C19: the merge throws the no-data error on an empty list and on a list
\* none of whose selections has a header, and returns a grid otherwise; and
\* a callback whose merge threw has failed with that error without calling
\* createNewSheet: no action was sent and the document has no new table.
MergeWithoutDataFails ==
    /\ mergeResult # NotCalled =>
          /\ Len(mergeArgs) = 0 => mergeResult = Thrown(NoFormattedData)
          /\ (Len(mergeArgs) > 0 /\ SumHeaderCounts(mergeArgs, 1) = 0)
                => mergeResult = Thrown(NoValidColumns)
          /\ SumHeaderCounts(mergeArgs, 1) > 0 => mergeResult.ok
          /\ ~mergeResult.ok => DOMAIN mergeResult = {"ok", "error"}
    /\ (pc["gcs"] # "idle" /\ ~mergeResult.ok) =>
          /\ pc["gcs"] = "failed"
          /\ error["gcs"] = mergeResult.error
          /\ error["gcs"] \in NoDataErrors
          /\ options["gcs"] = NoOptions
          /\ sent["gcs"] = <<>>
          /\ tables = {}

\* The callback has failed on two selections without a valid header.
MergeWithoutDataFailsWitness ==
    /\ Len(mergeArgs) = 2
    /\ mergeArgs[1].headers = Null
    /\ mergeArgs[2].headers = JsArray(<<>>)
    /\ pc["gcs"] = "failed"
    /\ error["gcs"] = NoValidColumns
    /\ sent["gcs"] = <<>>

\* The text has no white space at either end.
IsTrimmed(text) ==
    text = <<>> \/ (text[1] \notin Whitespace /\ text[Len(text)] \notin Whitespace)

\* C20: a save of a name that is empty or white space only raises the
\* dialog's error and changes nothing else (the dialog stays open, the
\* callback is not called, the store and the document are as before); the
\* callback is called only for a name with something other than white space,
\* and the name a run was given is non-empty and has no white space at
\* either end.
EmptyNameRejected ==
    [][ /\ (error'["gcs"] = EmptySheetName /\ error["gcs"] # EmptySheetName)
           => ( /\ \A i \in 1..Len(sheetName) : sheetName[i] \in Whitespace
                /\ pc' = pc
                /\ pc["gcs"] = "dialog"
                /\ selections' = selections
                /\ tables' = tables
                /\ sent' = sent
                /\ options' = options )
        /\ (pc["gcs"] = "dialog" /\ pc'["gcs"] \notin {"dialog", "cancelled"})
           => ( /\ \E i \in 1..Len(sheetName) : sheetName[i] \notin Whitespace
                /\ error'["gcs"] # EmptySheetName )
        /\ (options'["gcs"] # NoOptions)
           => ( /\ options'["gcs"].baseTableName # <<>>
                /\ IsTrimmed(options'["gcs"].baseTableName) )]_vars

\* A name of one space was refused: the dialog is open on it with the error,
\* over a store that holds the selection.
EmptyNameRejectedWitness ==
    /\ pc["gcs"] = "dialog"
    /\ error["gcs"] = EmptySheetName
    /\ sheetName = <<" ">>
    /\ Len(selections) > 0
    /\ sent["gcs"] = <<>>

\* C21: when the dialog's callback empties the store after createNewSheet
\* returned, every entry the store held was among the formatted selections
\* the grid was merged from.
ClearedEntriesWereMaterialized ==
    [][(pc["gcs"] \in {"addTable", "bulkAdd", "openPage"} /\ pc'["gcs"] = "done")
          => LET discarded == getFormattedData(selections)
             IN  \A i \in 1..Len(discarded) :
                    \E j \in 1..Len(capturedData) : capturedData[j] = discarded[i]]_vars

\* C22: a BulkAddRecord action sent for a merged grid follows the AddTable
\* action and names the same table id; its row ids are all null, and there
\* are as many of them as each column of its data, the merged grid's, has
\* values.
BulkInsertMatchesGrid ==
    LET actions == sent["gcs"]
    IN  \A i \in 1..Len(actions) :
            actions[i].type = "BulkAddRecord" =>
                /\ i = 2
                /\ actions[1].type = "AddTable"
                /\ actions[2].tableId = actions[1].tableId
                /\ mergeResult.ok
                /\ actions[1].columns = mergeResult.value.columns
                /\ actions[2].bulkData = mergeResult.value.bulkData
                /\ \A r \in 1..Len(actions[2].rowIds) : actions[2].rowIds[r] = Null
                /\ \A c \in 1..Len(actions[2].bulkData) :
                     Len(actions[2].bulkData[c].value) = Len(actions[2].rowIds)

\* The BulkAddRecord action of a grid of three columns and two rows, merged
\* from a one-row and a two-row selection, has been sent.
BulkInsertMatchesGridWitness ==
    /\ pc["gcs"] = "bulkAdd"
    /\ Len(mergeArgs) = 2
    /\ mergeArgs[1].rowCount = 1 /\ mergeArgs[2].rowCount = 2
    /\ Len(sent["gcs"]) = 2
    /\ Len(sent["gcs"][2].rowIds) = 2
    /\ Len(sent["gcs"][2].bulkData) = 3

-----------------------------------------------------------------------------
(* Properties of the store.                                                *)

\* The position among the entries at the indexes in kept of the one at i.
Rank(kept, i) == Cardinality({j \in kept : j <= i})

\* C13: after removeSelection(id) no entry has that id, every other entry of
\* the store it was called on is still there, in the same relative order and
\* unchanged, and a store without such an entry is left as it was.
RemoveKeepsOthersInOrder ==
    storeCall.op = "removeSelection" =>
        LET before == storeCall.before
            kept == {i \in 1..Len(before) : before[i].id # storeCall.id}
        IN  /\ \A i \in 1..Len(selections) : selections[i].id # storeCall.id
            /\ Len(selections) = Cardinality(kept)
            /\ \A i \in kept : selections[Rank(kept, i)] = before[i]
            /\ (kept = 1..Len(before)) => selections = before

\* The middle one of three entries has been removed and the two different
\* entries around it remain, in order.
RemoveKeepsOthersInOrderWitness ==
    /\ storeCall.op = "removeSelection"
    /\ Len(storeCall.before) = 3
    /\ storeCall.before[2].id = storeCall.id
    /\ storeCall.before[1] # storeCall.before[3]
    /\ selections = <<storeCall.before[1], storeCall.before[3]>>

\* The indexes of the entries that have a sheet name and a table id.
Complete(entries) ==
    {i \in 1..Len(entries) : entries[i].tableId # <<>> /\ entries[i].sheetName # <<>>}

IsPrefix(a, b) == Len(a) <= Len(b) /\ SubSeq(b, 1, Len(a)) = a

\* C14: addSelection leaves the entries the store had where they were and
\* puts exactly one entry, the new one, after them; clearSelections leaves
\* none; and the columns merged from a formatted store are those of its
\* complete entries in store order, each entry's in the order of its headers.
InsertionOrderKept ==
    /\ storeCall.op = "addSelection" =>
          /\ Len(selections) = Len(storeCall.before) + 1
          /\ SubSeq(selections, 1, Len(storeCall.before)) = storeCall.before
          /\ selections[Len(selections)].id = storeCall.id
    /\ storeCall.op = "clearSelections" => selections = <<>>
    /\ storeCall.op = "getFormattedData" =>
          LET formatted == storeCall.result
              kept == Complete(selections)
              grid == convertGlobalSelectionData(formatted)
              flat == FlatHeaders(formatted, 1)
          IN  /\ Len(formatted) = Cardinality(kept)
              /\ \A i \in kept :
                   /\ formatted[Rank(kept, i)].id = selections[i].id
                   /\ formatted[Rank(kept, i)].headers = JsArray(selections[i].headers)
              /\ grid.ok =>
                   /\ Len(grid.value.columns) = Len(flat)
                   /\ \A c \in 1..Len(flat) :
                        IsPrefix(PrefixOf(formatted, flat[c].sel) \o flat[c].header,
                                 grid.value.columns[c].id)

\* A store to which a one-header entry and then a two-header entry were
\* added has been formatted: the merge puts the first entry's column first.
InsertionOrderKeptWitness ==
    /\ storeCall.op = "getFormattedData"
    /\ Len(selections) = 2
    /\ selections[1].headers = <<FieldA.label>>
    /\ selections[2].headers = <<FieldB.label, FieldA.label>>
    /\ LET grid == convertGlobalSelectionData(storeCall.result)
       IN  /\ grid.ok
           /\ [c \in 1..Len(grid.value.columns) |-> grid.value.columns[c].id]
                 = <<<<"T", "_", "A">>, <<"T", "_", "B">>, <<"T", "_", "A", "_", "1">>>>

\* C18: getFormattedData returns one formatted selection per complete entry,
\* in store order, and none for an entry without a sheet name or a table id;
\* every row of a formatted selection holds its row id and, for each field
\* that can be read, the cell under the field's label (null for a falsy
\* cell), and no key for a field that cannot be read.
FormattingSkipsMalformed ==
    storeCall.op = "getFormattedData" =>
        LET formatted == storeCall.result
            kept == Complete(selections)
        IN  /\ Len(formatted) = Cardinality(kept)
            /\ \A i \in kept :
                 LET entry == selections[i]
                     f == formatted[Rank(kept, i)]
                     readable == {j \in 1..Len(entry.fields) : ~entry.fields[j].broken}
                 IN  /\ f.id = entry.id
                     /\ f.sheet = entry.sheetName
                     /\ f.table = entry.tableId
                     /\ f.rowCount = Len(entry.rowIds)
                     /\ f.columnCount = Len(entry.fields)
                     /\ Len(f.data) = Len(entry.rowIds)
                     /\ \A k \in 1..Len(entry.rowIds) :
                          /\ f.data[k][RowIdKey] = JsNumber(entry.rowIds[k])
                          /\ DOMAIN f.data[k] =
                                {RowIdKey} \cup {entry.fields[j].label : j \in readable}
                          /\ \A j \in readable :
                               LET cell == entry.cellData[entry.rowIds[k]][entry.fields[j].colId]
                               IN  f.data[k][entry.fields[j].label] =
                                       IF Truthy(cell) THEN cell ELSE Null

\* A store whose second entry lacks a table id and whose other two entries
\* hold an unreadable field before a readable one has been formatted.
FormattingSkipsMalformedWitness ==
    /\ storeCall.op = "getFormattedData"
    /\ Len(selections) = 3
    /\ selections[2].tableId = <<>>
    /\ Len(storeCall.result) = 2
    /\ selections[1].fields = <<FieldB, FieldA>>
    /\ selections[3].fields = <<FieldB, FieldA>>
    /\ Len(storeCall.result[2].data) = 2

====
